---- MODULE Spec2Model ----
(***************************************************************************)
(* FileFilter::UnifiedDiffParser (Parse and its helpers) as a state        *)
(* machine.  A line of text is a sequence of one-character strings, so     *)
(* that starts_with, substr, find, erase_head, the hunk regular expression *)
(* and std::stoi are computed on characters.  The input stream is the      *)
(* environment: every GetLine either extracts the next line of the text    *)
(* or fails at the end of the text; `input` is the text extracted so far.  *)
(* The coverage tree the CoberturaExporter tests build (CoverageData,       *)
(* ModuleCoverage, FileCoverage) is modelled beside it, with the document  *)
(* and the file system of Export.  TwiceSpec adds a second call of Parse   *)
(* on the same text; LiveSpec adds the fairness of a call that runs on.    *)
(***************************************************************************)
EXTENDS Integers, Sequences, FiniteSets, TLC

\* ------------------------------------------------------------------ bounds
\* Longest text, in lines, the stream can hold.
MaxLen == 6
\* Longest text, in lines, Parse is called on a second time.
MaxLenTwice == 5
\* Most nodes (modules, files and lines) of a coverage tree, and the largest
\* line number AddLine is called with.
MaxNodes == 5
MaxLineNumber == 1

\* ------------------------------------------------------- program constants
\* INT_MAX of the 32-bit int of HunksDifferences and Stream::currentLine_.
IntMax == 2147483647

GitTargetPrefix == <<"b", "/">>
DevNull == <<"/", "d", "e", "v", "/", "n", "u", "l", "l">>
FromFilePrefix == <<"-", "-", "-", " ">>
ToFilePrefix == <<"+", "+", "+", " ">>
GitSourcePrefix == FromFilePrefix \o <<"a", "/">>
GitHeaderPrefix == <<"d", "i", "f", "f", " ", "-", "-", "g", "i", "t">>
HunkPrefix == <<"@", "@">>
Tab == "\t"

ErrorExpectFromFilePrefix == "ErrorExpectFromFilePrefix"
ErrorCannotReadLine == "ErrorCannotReadLine"
ErrorNoFilenameBeforeHunks == "ErrorNoFilenameBeforeHunks"
ErrorInvalidHunks == "ErrorInvalidHunks"
ErrorContextHunks == "ErrorContextHunks"
DiffErrorKinds ==
  {ErrorExpectFromFilePrefix, ErrorCannotReadLine, ErrorNoFilenameBeforeHunks,
   ErrorInvalidHunks, ErrorContextHunks}
\* Failures that are not a UnifiedDiffParserException.
StdOutOfRange == "std::out_of_range"
FileFilterException == "FileFilterException"
UndefinedBehaviour == "undefined behaviour"

\* ------------------------------------------------------------- the texts
Digits == {"0", "1", "2", "3", "4", "5", "6", "7", "8", "9"}
WhiteSpace == {" ", Tab}

LGit == GitHeaderPrefix \o <<" ", "a", "/", "x", " ", "b", "/", "x">>
LFromA == <<"-", "-", "-", " ", "a", "/", "x">>
LFromX == <<"-", "-", "-", " ", "x">>
LFromNull == FromFilePrefix \o DevNull
LToB == <<"+", "+", "+", " ", "b", "/", "x">>
LToX == <<"+", "+", "+", " ", "x", Tab, "T">>
LToNull == ToFilePrefix \o DevNull
LToBNull == ToFilePrefix \o GitTargetPrefix \o DevNull
LHunk1 == <<"@", "@", " ", "-", "1", " ", "+", "1", " ", "@", "@">>
LHunk0 == <<"@", "@", " ", "-", "0", ",", "0", " ", "+", "0", " ", "@", "@">>
LHunk2 == <<"@", "@", " ", "-", "1", ",", "2", " ", "+", "1", ",", "2", " ", "@", "@", " ", "f">>
LHunkNone == <<"@", "@", "-", "3", "+", "2", ",", "0", "@", "@">>
LHunkBad == <<"@", "@", " ", "+", "1", " ", "@", "@">>
LHunkBadCount == <<"@", "@", " ", "-", "1", ",", " ", "+", "1", " ", "@", "@">>
LHunkBig == <<"@", "@", " ", "-", "1", " ", "+", "2", "1", "4", "7", "4", "8", "3", "6", "4", "8", " ", "@", "@">>
LHunkMax == <<"@", "@", " ", "-", "1", " ", "+", "2", "1", "4", "7", "4", "8", "3", "6", "4", "7", " ", "@", "@">>
LAdded == <<"+", "a">>
LRemoved == <<"-", "b">>
LContext == <<" ", "c">>
LNoNewline == <<"\\", " ", "N">>
LEmpty == <<>>

\* The lines most texts are made of, and the lines a text holds at most one of.
CoreLines == {LGit, LFromA, LToB, LHunk1, LAdded}
RareLines ==
  {LFromX, LFromNull, LToX, LToNull, LToBNull, LHunk0, LHunk2, LHunkNone,
   LHunkBad, LHunkBadCount, LHunkBig, LHunkMax, LRemoved, LContext, LNoNewline,
   LEmpty}
Alphabet == CoreLines \cup RareLines

RareCount(text) == Cardinality({i \in 1..Len(text) : text[i] \in RareLines})
Admissible(text) == Len(text) <= MaxLen /\ RareCount(text) <= 1

\* ------------------------------------------------------ string primitives
\* boost::algorithm::starts_with
starts_with(s, prefix) ==
  Len(s) >= Len(prefix) /\ SubSeq(s, 1, Len(prefix)) = prefix

\* std::wstring::find(ch): 0-based index of the first ch, or npos.
npos == -1
find(s, ch) ==
  IF \E i \in 1..Len(s) : s[i] = ch
  THEN (CHOOSE i \in 1..Len(s) : s[i] = ch /\ \A j \in 1..(i - 1) : s[j] # ch) - 1
  ELSE npos

\* std::wstring::substr(pos, count) and substr(pos), pos 0-based.
substr(s, pos, count) ==
  SubSeq(s, pos + 1, IF pos + count > Len(s) THEN Len(s) ELSE pos + count)
substrFrom(s, pos) == SubSeq(s, pos + 1, Len(s))

\* boost::algorithm::erase_head(s, n)
erase_head(s, n) == IF n >= Len(s) THEN <<>> ELSE SubSeq(s, n + 1, Len(s))

\* ------------------------------------------------------------- std::stoi
DigitValue(c) ==
  CASE c = "0" -> 0 [] c = "1" -> 1 [] c = "2" -> 2 [] c = "3" -> 3
    [] c = "4" -> 4 [] c = "5" -> 5 [] c = "6" -> 6 [] c = "7" -> 7
    [] c = "8" -> 8 [] c = "9" -> 9

\* The value of a digit string, or OutOfRange where std::stoi throws
\* std::out_of_range (the value does not fit a 32-bit int).
OutOfRange == -1
RECURSIVE stoiFrom(_, _, _)
stoiFrom(ds, i, acc) ==
  IF i > Len(ds) THEN acc
  ELSE IF acc > (IntMax - DigitValue(ds[i])) \div 10 THEN OutOfRange
  ELSE stoiFrom(ds, i + 1, acc * 10 + DigitValue(ds[i]))
stoi(ds) == stoiFrom(ds, 1, 0)

\* ------------------------------------------------- the hunk header regex
\* ^@@\s*-(\d+)(?:,(\d+))?\s*\+(\d+)(?:,(\d+))?\s*@@   (positions 1-based)
RECURSIVE SkipWhile(_, _, _)
SkipWhile(s, p, class) ==
  IF p <= Len(s) /\ s[p] \in class THEN SkipWhile(s, p + 1, class) ELSE p

\* (\d+)(?:,(\d+))? at position p: the two groups and the position after.
\* e1 ends the first run of digits, e2 the run after a comma.
RangeWithComma(s, p, e1, e2) ==
  [matched |-> e1 > p,
   start |-> SubSeq(s, p, e1 - 1),
   countMatched |-> e2 > e1 + 1,
   count |-> IF e2 > e1 + 1 THEN SubSeq(s, e1 + 1, e2 - 1) ELSE <<>>,
   next |-> IF e2 > e1 + 1 THEN e2 ELSE e1]
RangeFromStart(s, p, e1) ==
  IF e1 <= Len(s) /\ s[e1] = ","
  THEN RangeWithComma(s, p, e1, SkipWhile(s, e1 + 1, Digits))
  ELSE RangeWithComma(s, p, e1, e1)
MatchRange(s, p) == RangeFromStart(s, p, SkipWhile(s, p, Digits))

\* std::regex_search(line, match, hunkRegex): match[1..4], or no match.
NoMatch == [matched |-> FALSE]
MatchClose(s, from, to) ==
  IF /\ to.matched
     /\ starts_with(substrFrom(s, SkipWhile(s, to.next, WhiteSpace) - 1), HunkPrefix)
  THEN [matched |-> TRUE, from |-> from, to |-> to]
  ELSE NoMatch
MatchPlus(s, from, p2) ==
  IF p2 <= Len(s) /\ s[p2] = "+" THEN MatchClose(s, from, MatchRange(s, p2 + 1))
  ELSE NoMatch
MatchFrom(s, from) ==
  IF from.matched THEN MatchPlus(s, from, SkipWhile(s, from.next, WhiteSpace))
  ELSE NoMatch
MatchMinus(s, p1) ==
  IF p1 <= Len(s) /\ s[p1] = "-" THEN MatchFrom(s, MatchRange(s, p1 + 1))
  ELSE NoMatch
HunkRegexMatch(s) ==
  IF starts_with(s, HunkPrefix)
  THEN MatchMinus(s, SkipWhile(s, Len(HunkPrefix) + 1, WhiteSpace))
  ELSE NoMatch

\* The HunksDifferences of four std::stoi results, or the std::out_of_range
\* std::stoi throws when a number does not fit an int.
HunksOfNumbers(startFrom, countFrom, startTo, countTo) ==
  IF OutOfRange \in {startFrom, countFrom, startTo, countTo}
  THEN [kind |-> StdOutOfRange]
  ELSE [kind |-> "ok", startFrom |-> startFrom, countFrom |-> countFrom,
        startTo |-> startTo, countTo |-> countTo]

\* The count of a range whose ",count" is absent.
DefaultCount == 1
\* HunksOfMatch reading a missing count as 0.
HunksOfMatch_DefaultZero(m) ==
  IF ~m.matched THEN [kind |-> ErrorInvalidHunks]
  ELSE HunksOfNumbers(
         stoi(m.from.start),
         IF m.from.countMatched THEN stoi(m.from.count) ELSE 0,
         stoi(m.to.start),
         IF m.to.countMatched THEN stoi(m.to.count) ELSE 0)

HunksOfMatch(m) ==
  IF ~m.matched THEN [kind |-> ErrorInvalidHunks]
  ELSE HunksOfNumbers(
         stoi(m.from.start),
         IF m.from.countMatched THEN stoi(m.from.count) ELSE DefaultCount,
         stoi(m.to.start),
         IF m.to.countMatched THEN stoi(m.to.count) ELSE DefaultCount)

\* UnifiedDiffParser::ExtractHunksDifferences: the four numbers of the
\* header, or ErrorInvalidHunks when the pattern does not match.
ExtractHunksDifferences(hunksDifferencesLine) ==
  HunksOfMatch(HunkRegexMatch(hunksDifferencesLine))

\* UnifiedDiffParser::ExtractTargetFile
ExtractTargetFile(toLine) ==
  LET startIndex == Len(ToFilePrefix)
      endIndex == find(toLine, Tab)
  IN IF endIndex # npos THEN substr(toLine, startIndex, endIndex - startIndex)
     ELSE substrFrom(toLine, startIndex)

\* ------------------------------------------------------------------ File
\* FileFilter::File: a path and its selected lines, an ordered set.
File(path) == [path |-> path, selectedLines |-> <<>>]
SetPath(file, path) == [file EXCEPT !.path = path]

\* Insertion at the end, as into a vector.
InsertLine_PushBack(lines, n) == Append(lines, n)

\* Insertion into the ordered set of selected lines.
InsertLine(lines, n) ==
  IF \E i \in 1..Len(lines) : lines[i] = n THEN lines
  ELSE LET below == SelectSeq(lines, LAMBDA x : x < n)
           above == SelectSeq(lines, LAMBDA x : x > n)
       IN below \o <<n>> \o above

RECURSIVE InsertAll(_, _, _)
InsertAll(lines, new, i) ==
  IF i > Len(new) THEN lines ELSE InsertAll(InsertLine(lines, new[i]), new, i + 1)

AddSelectedLines(file, lines) ==
  [file EXCEPT !.selectedLines = InsertAll(@, lines, 1)]

\* ------------------------------------------------------- post-processing
\* EraseIf(container, fct) is SelectSeq(container, LAMBDA x : ~fct(x)).

IsDevNullFile(file) == file.path = DevNull
IsDevNullSource(sourceLine) == starts_with(sourceLine, FromFilePrefix \o DevNull)

\* RemoveDevNull without the EraseIf on files.
RemoveDevNull_KeepsFiles(fs, sources) ==
  [files |-> fs,
   sourceFileLines |-> SelectSeq(sources, LAMBDA x : ~IsDevNullSource(x))]

\* RemoveDevNull: the two vectors after the two EraseIf calls.
\* RemoveDevNull leaving the kept records in reverse order.
RemoveDevNull_Reversed(fs, sources) ==
  [files |-> [i \in 1..Len(SelectSeq(fs, LAMBDA f : ~IsDevNullFile(f))) |->
                SelectSeq(fs, LAMBDA f : ~IsDevNullFile(f))[
                  Len(SelectSeq(fs, LAMBDA f : ~IsDevNullFile(f))) + 1 - i]],
   sourceFileLines |-> SelectSeq(sources, LAMBDA l : ~IsDevNullSource(l))]

RemoveDevNull(fs, sources) ==
  [files |-> SelectSeq(fs, LAMBDA x : ~IsDevNullFile(x)),
   sourceFileLines |-> SelectSeq(sources, LAMBDA x : ~IsDevNullSource(x))]

\* IsGitDetected without the test of the from-file lines.
IsGitDetected_TargetsOnly(fs, sources, foundGit) ==
  foundGit /\ \A i \in 1..Len(fs) : starts_with(fs[i].path, GitTargetPrefix)

\* IsGitDetected looking at the from-file lines only.
IsGitDetected_SourcesOnly(fs, sources, foundGit) ==
  /\ foundGit
  /\ \A i \in 1..Len(sources) : starts_with(sources[i], GitSourcePrefix)

IsGitDetected(fs, sources, foundGit) ==
  IF ~foundGit THEN FALSE
  ELSE
    LET isGitTarget == \A i \in 1..Len(fs) : starts_with(fs[i].path, GitTargetPrefix)
        isGitSource == \A i \in 1..Len(sources) : starts_with(sources[i], GitSourcePrefix)
    IN isGitTarget /\ isGitSource

\* UpdateFilePathIfGitDetected: the files afterwards, or the THROW of the
\* consistency check.
UpdateFilePathIfGitDetected(fs, sources, foundGit) ==
  IF IsGitDetected(fs, sources, foundGit)
  THEN IF \E i \in 1..Len(fs) : ~starts_with(fs[i].path, GitTargetPrefix)
       THEN [kind |-> FileFilterException]
       ELSE [kind |-> "ok",
             files |-> [i \in 1..Len(fs) |->
                          SetPath(fs[i], erase_head(fs[i].path, Len(GitTargetPrefix)))]]
  ELSE [kind |-> "ok", files |-> fs]

\* ThrowError: the exception built from the stream's counter and last line.
ThrowError(streamLine, streamLast, message) ==
  [kind |-> message, line |-> streamLine, text |-> streamLast]
\* An exception that is not a UnifiedDiffParserException carries no position.
OtherFailure(kind) == [kind |-> kind, line |-> 0, text |-> <<>>]
NoError == [kind |-> "none", line |-> 0, text |-> <<>>]

\* The source holds two translation units that share no state: the
\* UnifiedDiffParser, and the CoberturaExporter tests, which build a coverage
\* tree.  A run exercises one of them.
DiffParserUnit == "UnifiedDiffParser"
ExporterTestUnit == "CoberturaExporterTest"
Units == {DiffParserUnit, ExporterTestUnit}

\* ------------------------------------------------------------ file system
\* The paths of the path-form tests, as sequences of names.
TempPath == <<"T">>
SubFolder == <<"T", "SubFolder">>
OutputXml == <<"T", "SubFolder", "output.xml">>
InvalidFile == <<"T", "InvalidFile">>
Paths == {TempPath, SubFolder, OutputXml, InvalidFile}
Absent == [kind |-> "none", content |-> <<>>]
EmptyFile == [kind |-> "file", content |-> <<>>]
Directory == [kind |-> "dir", content |-> <<>>]
NoTemporaryPath == [p \in Paths |-> Absent]
\* Export's destination: slash for a path written with a trailing separator.
Targets ==
  {[path |-> TempPath, slash |-> FALSE], [path |-> OutputXml, slash |-> FALSE],
   [path |-> InvalidFile, slash |-> TRUE]}
InvalidOutputFileException == "InvalidOutputFileException"
NoExport ==
  [form |-> "none", target |-> [path |-> <<>>, slash |-> FALSE],
   before |-> NoTemporaryPath, error |-> [kind |-> "none", path |-> <<>>]]

\* ------------------------------------------------------------------ state
VARIABLES
  input,            \* the lines std::getline has extracted from istr so far
  istr,             \* stream state: "good", "eof" (eofbit) or "fail" (failbit)
  currentLine_,     \* Stream::currentLine_
  lastLineRead_,    \* Stream::lastLineRead_
  line,             \* Parse: line
  files,            \* Parse: files
  sourceFileLines,  \* Parse: sourceFileLines
  foundGitHeader,   \* Parse: foundGitHeader
  hunksDifferences, \* ExtractUpdatedLines: hunksDifferences
  lineStr,          \* ExtractUpdatedLines: lineStr
  currentLine,      \* ExtractUpdatedLines: currentLine
  endLine,          \* ExtractUpdatedLines: endLine
  updatedLines,     \* ExtractUpdatedLines: updatedLines
  pc,               \* where Parse is: "scan", "tofile", "hunk", "done", "error"
  error,            \* the exception that left Parse, NoError if none
  pairs,            \* history: the accepted from-file/to-file pairs
  hunks,            \* history: the hunks ExtractUpdatedLines returned
  unit,             \* which of the two translation units is running
  coverageData,     \* Plugin::CoverageData: the modules, in insertion order
  fileSystem,       \* what is at each path under the temporary path
  exported,         \* the documents written to the stream given to Export
  exportCall,       \* history: the call of Export that was made, if any
  eofSeen,          \* history: the last line extracted had no newline after it
  call,             \* which call of Parse on the parser object is running
  first             \* history: the text and the outcome of the first call

streamVars == <<input, istr, currentLine_, lastLineRead_>>
hunkVars == <<hunksDifferences, lineStr, currentLine, endLine, updatedLines>>
callVars == <<call, first>>
exporterVars == <<coverageData, fileSystem, exported, exportCall>>
vars == <<input, istr, currentLine_, lastLineRead_, line, files, sourceFileLines,
          foundGitHeader, hunksDifferences, lineStr, currentLine, endLine,
          updatedLines, pc, error, pairs, hunks, unit, coverageData, eofSeen,
          call, first, fileSystem, exported, exportCall>>
parserVars == <<input, istr, currentLine_, lastLineRead_, line, files,
                sourceFileLines, foundGitHeader, hunksDifferences, lineStr,
                currentLine, endLine, updatedLines, pc, error, pairs, hunks,
                eofSeen, call, first>>

NoHunk == [startFrom |-> 0, countFrom |-> 0, startTo |-> 0, countTo |-> 0, header |-> 0]
\* first, while the first call runs.
NoCall == [input |-> <<>>, eofSeen |-> FALSE, istr |-> "good", pc |-> "scan",
           files |-> <<>>, error |-> NoError]

Init ==
  /\ input = <<>>
  /\ istr = "good"
  /\ currentLine_ = 0
  /\ lastLineRead_ = <<>>
  /\ line = <<>>
  /\ files = <<>>
  /\ sourceFileLines = <<>>
  /\ foundGitHeader = FALSE
  /\ hunksDifferences = NoHunk
  /\ lineStr = <<>>
  /\ currentLine = 0
  /\ endLine = 0
  /\ updatedLines = <<>>
  /\ pc = "scan"
  /\ error = NoError
  /\ pairs = <<>>
  /\ hunks = <<>>
  /\ unit \in Units
  /\ coverageData = <<>>
  /\ fileSystem = NoTemporaryPath
  /\ exported = <<>>
  /\ exportCall = NoExport
  /\ eofSeen = FALSE
  /\ call = 1
  /\ first = NoCall

\* ------------------------------------------------------- Stream::GetLine
\* The stream of a second call holds the text of the first: as far as the
\* first call has read it, it delivers the same lines and ends at the same
\* place in the same way.
SameTextDelivers(l, atEnd) ==
  call = 2 =>
    IF Len(input) < Len(first.input)
    THEN /\ l = first.input[Len(input) + 1]
         /\ atEnd = (first.eofSeen /\ Len(input) + 1 = Len(first.input))
    ELSE first.istr = "good"
SameTextEnds == call = 2 => Len(input) >= Len(first.input)

\* std::getline extracts the line l; atEnd: the text ends right after l,
\* without a newline, which sets eofbit.
GetLineOk(l, atEnd) ==
  /\ istr = "good"
  /\ Admissible(Append(input, l))
  /\ atEnd => l # <<>>
  /\ SameTextDelivers(l, atEnd)
  /\ input' = Append(input, l)
  /\ eofSeen' = atEnd
  /\ istr' = IF atEnd THEN "eof" ELSE "good"
  /\ currentLine_' = currentLine_ + 1
  /\ lastLineRead_' = l

\* What std::getline leaves in its argument when it extracts nothing: the
\* string is erased when the stream was good, untouched when eofbit was set.
FailedLine(arg) == IF istr = "good" THEN <<>> ELSE arg

\* std::getline fails at the end of the text; the counter and the last line
\* are updated all the same.
GetLineFail(arg) ==
  /\ SameTextEnds
  /\ input' = input
  /\ eofSeen' = eofSeen
  /\ istr' = "fail"
  /\ currentLine_' = currentLine_ + 1
  /\ lastLineRead_' = FailedLine(arg)

\* ------------------------------------------- UnifiedDiffParser, per read
\* The body of the loop of ExtractUpdatedLines for one line read.
IsCounted(l) == ~starts_with(l, <<"-">>) /\ ~starts_with(l, <<"\\">>)
\* The loop body with the counter incremented before the line is recorded.
LoopBody_IncrementFirst(l, cur, updated) ==
  IF IsCounted(l)
  THEN [currentLine |-> cur + 1,
        updatedLines |-> IF starts_with(l, <<"+">>) THEN Append(updated, cur + 1)
                         ELSE updated]
  ELSE [currentLine |-> cur, updatedLines |-> updated]

\* The loop body recording zero-based line numbers.
LoopBody_ZeroBased(l, cur, updated) ==
  IF IsCounted(l)
  THEN [currentLine |-> cur + 1,
        updatedLines |-> IF starts_with(l, <<"+">>) THEN Append(updated, cur - 1)
                         ELSE updated]
  ELSE [currentLine |-> cur, updatedLines |-> updated]

LoopBody(l, cur, updated) ==
  IF IsCounted(l)
  THEN [currentLine |-> cur + 1,
        updatedLines |-> IF starts_with(l, <<"+">>) THEN Append(updated, cur)
                         ELSE updated]
  ELSE [currentLine |-> cur, updatedLines |-> updated]

\* LeaveLoop without the test of the counter against endLine.
LeaveLoop_NoCheck(cur, end, updated, hd) ==
  /\ pc' = "scan"
  /\ error' = error
  /\ files' = [files EXCEPT ![Len(files)] = AddSelectedLines(@, updated)]
  /\ hunks' = Append(hunks, [header |-> hd.header, last |-> Len(input'),
                             startFrom |-> hd.startFrom, countFrom |-> hd.countFrom,
                             startTo |-> hd.startTo, countTo |-> hd.countTo,
                             file |-> Len(files), updated |-> updated])

\* ExtractUpdatedLines once its loop is left with counter cur, and the
\* AddSelectedLines of FillUpdatedLines that follows its return.
LeaveLoop(cur, end, updated, hd) ==
  IF cur # end
  THEN /\ pc' = "error"
       /\ error' = ThrowError(currentLine_', lastLineRead_', ErrorContextHunks)
       /\ UNCHANGED <<files, hunks>>
  ELSE /\ pc' = "scan"
       /\ error' = error
       /\ files' = [files EXCEPT ![Len(files)] = AddSelectedLines(@, updated)]
       /\ hunks' = Append(hunks, [header |-> hd.header, last |-> Len(input'),
                                  startFrom |-> hd.startFrom,
                                  countFrom |-> hd.countFrom,
                                  startTo |-> hd.startTo, countTo |-> hd.countTo,
                                  file |-> Len(files), updated |-> updated])

\* ExtractUpdatedLines up to the first test of its loop condition.
EnterLoop(hd, end) ==
  /\ hunksDifferences' = hd
  /\ lineStr' = <<>>
  /\ currentLine' = hd.startTo
  /\ endLine' = end
  /\ IF hd.startTo < end
     THEN /\ updatedLines' = <<>>
          /\ pc' = "hunk"
          /\ UNCHANGED <<files, hunks, error>>
     ELSE /\ updatedLines' = <<>>
          /\ LeaveLoop(hd.startTo, end, <<>>, hd)

\* startTo + countTo in 32-bit two's complement when it exceeds INT_MAX.
Wrapped(a, b) == (a - IntMax - 1) + (b - IntMax - 1)

\* What the signed overflow does is a matter of the build, and a second call
\* runs the code of the first: it wraps if the first call got past an
\* overflow or met none, it aborts if the first call did.
BuildWraps == call = 1 \/ first.error.kind # UndefinedBehaviour
BuildAborts == call = 1 \/ first.error.kind = UndefinedBehaviour

\* ExtractUpdatedLines from the parsed header hd (header: its line number).
ExtractUpdatedLines(hd) ==
  IF hd.startTo > IntMax - hd.countTo
  THEN \* signed overflow of startTo + countTo: undefined behaviour
       \/ BuildWraps /\ EnterLoop(hd, Wrapped(hd.startTo, hd.countTo))
       \/ /\ BuildAborts
          /\ pc' = "error"
          /\ error' = OtherFailure(UndefinedBehaviour)
          /\ UNCHANGED <<files, hunks, hunkVars>>
  ELSE EnterLoop(hd, hd.startTo + hd.countTo)

\* What the call of ExtractHunksDifferences in ExtractUpdatedLines gives.
AfterHeader(parsed) ==
  IF parsed.kind = ErrorInvalidHunks
  THEN /\ pc' = "error"
       /\ error' = ThrowError(currentLine_', lastLineRead_', ErrorInvalidHunks)
       /\ UNCHANGED <<files, hunks, hunkVars>>
  ELSE IF parsed.kind = StdOutOfRange
  THEN /\ pc' = "error"
       /\ error' = OtherFailure(StdOutOfRange)
       /\ UNCHANGED <<files, hunks, hunkVars>>
  ELSE ExtractUpdatedLines(
         [startFrom |-> parsed.startFrom, countFrom |-> parsed.countFrom,
          startTo |-> parsed.startTo, countTo |-> parsed.countTo,
          header |-> Len(input')])

\* FillUpdatedLines reading the header before it looks at files.
FillUpdatedLines_HeaderFirst(l) ==
  IF ExtractHunksDifferences(l).kind = "ok" /\ files = <<>>
  THEN /\ pc' = "error"
       /\ error' = ThrowError(currentLine_', lastLineRead_', ErrorNoFilenameBeforeHunks)
       /\ UNCHANGED <<files, hunks, hunkVars>>
  ELSE AfterHeader(ExtractHunksDifferences(l))

\* FillUpdatedLines for the header line l just read by Parse.
FillUpdatedLines(l) ==
  IF files = <<>>
  THEN /\ pc' = "error"
       /\ error' = ThrowError(currentLine_', lastLineRead_', ErrorNoFilenameBeforeHunks)
       /\ UNCHANGED <<files, hunks, hunkVars>>
  ELSE AfterHeader(ExtractHunksDifferences(l))

\* Parse: one successful read of the top-level loop and its dispatch.
ScanLine ==
  /\ unit = DiffParserUnit
  /\ pc = "scan"
  /\ UNCHANGED <<unit, exporterVars, callVars>>
  /\ \E l \in Alphabet, atEnd \in BOOLEAN :
       /\ GetLineOk(l, atEnd)
       /\ line' = l
       /\ UNCHANGED <<sourceFileLines, pairs>>
       /\ IF starts_with(l, GitHeaderPrefix)
          THEN /\ foundGitHeader' = TRUE
               /\ UNCHANGED <<pc, error, files, hunks, hunkVars>>
          ELSE IF starts_with(l, FromFilePrefix)
          THEN /\ pc' = "tofile"
               /\ UNCHANGED <<foundGitHeader, error, files, hunks, hunkVars>>
          ELSE IF starts_with(l, HunkPrefix)
          THEN /\ FillUpdatedLines(l)
               /\ UNCHANGED foundGitHeader
          ELSE UNCHANGED <<foundGitHeader, pc, error, files, hunks, hunkVars>>

\* Parse: the read of the top-level loop fails; RemoveDevNull, then
\* UpdateFilePathIfGitDetected, then return files.
ScanEnd ==
  /\ unit = DiffParserUnit
  /\ pc = "scan"
  /\ UNCHANGED <<unit, exporterVars, callVars>>
  /\ GetLineFail(line)
  /\ line' = FailedLine(line)
  /\ LET kept == RemoveDevNull(files, sourceFileLines)
         updated == UpdateFilePathIfGitDetected(kept.files, kept.sourceFileLines,
                                                foundGitHeader)
     IN /\ sourceFileLines' = kept.sourceFileLines
        /\ IF updated.kind = "ok"
           THEN files' = updated.files /\ pc' = "done" /\ error' = error
           ELSE files' = kept.files /\ pc' = "error"
                /\ error' = OtherFailure(updated.kind)
  /\ UNCHANGED <<foundGitHeader, hunkVars, pairs, hunks>>

\* ReadToFile noting the error of a missing to-file line and scanning on.
ReadToFile_ScansOn ==
  /\ unit = DiffParserUnit
  /\ pc = "tofile"
  /\ UNCHANGED <<unit, exporterVars, callVars>>
  /\ \E nextLine \in Alphabet, atEnd \in BOOLEAN :
       /\ GetLineOk(nextLine, atEnd)
       /\ pc' = "scan"
       /\ IF starts_with(nextLine, ToFilePrefix)
          THEN /\ sourceFileLines' = Append(sourceFileLines, line)
               /\ files' = Append(files, File(ExtractTargetFile(nextLine)))
               /\ pairs' = Append(pairs, [from |-> Len(input), to |-> Len(input')])
               /\ error' = error
          ELSE /\ error' = ThrowError(currentLine_', lastLineRead_',
                                      ErrorExpectFromFilePrefix)
               /\ UNCHANGED <<sourceFileLines, files, pairs>>
  /\ UNCHANGED <<line, foundGitHeader, hunkVars, hunks>>

\* Parse: the read of nextLine after a from-file line succeeds.
ReadToFile ==
  /\ unit = DiffParserUnit
  /\ pc = "tofile"
  /\ UNCHANGED <<unit, exporterVars, callVars>>
  /\ \E nextLine \in Alphabet, atEnd \in BOOLEAN :
       /\ GetLineOk(nextLine, atEnd)
       /\ IF starts_with(nextLine, ToFilePrefix)
          THEN /\ sourceFileLines' = Append(sourceFileLines, line)
               /\ files' = Append(files, File(ExtractTargetFile(nextLine)))
               /\ pairs' = Append(pairs, [from |-> Len(input), to |-> Len(input')])
               /\ pc' = "scan"
               /\ error' = error
          ELSE /\ pc' = "error"
               /\ error' = ThrowError(currentLine_', lastLineRead_',
                                      ErrorExpectFromFilePrefix)
               /\ UNCHANGED <<sourceFileLines, files, pairs>>
  /\ UNCHANGED <<line, foundGitHeader, hunkVars, hunks>>

\* ReadToFileEnd throwing the error of the other branch.
ReadToFileEnd_OtherError ==
  /\ unit = DiffParserUnit
  /\ pc = "tofile"
  /\ UNCHANGED <<unit, exporterVars, callVars>>
  /\ GetLineFail(<<>>)
  /\ pc' = "error"
  /\ error' = ThrowError(currentLine_', lastLineRead_', ErrorExpectFromFilePrefix)
  /\ UNCHANGED <<line, files, sourceFileLines, foundGitHeader, hunkVars, pairs, hunks>>

\* Parse: the read of nextLine fails (nextLine is a fresh, empty string).
ReadToFileEnd ==
  /\ unit = DiffParserUnit
  /\ pc = "tofile"
  /\ UNCHANGED <<unit, exporterVars, callVars>>
  /\ GetLineFail(<<>>)
  /\ pc' = "error"
  /\ error' = ThrowError(currentLine_', lastLineRead_', ErrorCannotReadLine)
  /\ UNCHANGED <<line, files, sourceFileLines, foundGitHeader, hunkVars, pairs, hunks>>

\* ExtractUpdatedLines: one successful read of the hunk loop.
ReadHunkLine ==
  /\ unit = DiffParserUnit
  /\ pc = "hunk"
  /\ UNCHANGED <<unit, exporterVars, callVars>>
  /\ \E l \in Alphabet, atEnd \in BOOLEAN :
       /\ GetLineOk(l, atEnd)
       /\ lineStr' = l
       /\ LET body == LoopBody(l, currentLine, updatedLines) IN
            /\ currentLine' = body.currentLine
            /\ updatedLines' = body.updatedLines
            /\ IF body.currentLine < endLine
               THEN UNCHANGED <<pc, error, files, hunks>>
               ELSE LeaveLoop(body.currentLine, endLine, body.updatedLines,
                              hunksDifferences)
  /\ UNCHANGED <<line, sourceFileLines, foundGitHeader, hunksDifferences, endLine, pairs>>

\* ExtractUpdatedLines: the read of the hunk loop fails before endLine.
ReadHunkEnd ==
  /\ unit = DiffParserUnit
  /\ pc = "hunk"
  /\ UNCHANGED <<unit, exporterVars, callVars>>
  /\ GetLineFail(lineStr)
  /\ lineStr' = FailedLine(lineStr)
  /\ LeaveLoop(currentLine, endLine, updatedLines, hunksDifferences)
  /\ UNCHANGED <<line, sourceFileLines, foundGitHeader, hunksDifferences,
                 currentLine, endLine, updatedLines, pairs>>

\* ParseEntry with files kept from the call before, as a member would be.
ParseEntry_KeepsFiles ==
  /\ line' = <<>>
  /\ files' = files
  /\ currentLine_' = 0
  /\ lastLineRead_' = <<>>
  /\ sourceFileLines' = <<>>
  /\ foundGitHeader' = FALSE
  /\ pc' = "scan"
  /\ error' = NoError
  /\ UNCHANGED hunkVars

\* The locals Parse constructs when it is entered, over whatever an earlier
\* call has left in memory.
ParseEntry ==
  /\ line' = <<>>
  /\ files' = <<>>
  /\ currentLine_' = 0
  /\ lastLineRead_' = <<>>
  /\ sourceFileLines' = <<>>
  /\ foundGitHeader' = FALSE
  /\ pc' = "scan"
  /\ error' = NoError
  /\ UNCHANGED hunkVars

\* Parse is called again on the same parser object, with a new stream on
\* the text of the first call.
ParseAgain ==
  /\ unit = DiffParserUnit
  /\ call = 1
  /\ pc \in {"done", "error"}
  /\ Len(input) <= MaxLenTwice
  /\ call' = 2
  /\ first' = [input |-> input, eofSeen |-> eofSeen, istr |-> istr, pc |-> pc,
               files |-> files, error |-> error]
  /\ input' = <<>>
  /\ istr' = "good"
  /\ eofSeen' = FALSE
  /\ pairs' = <<>>
  /\ hunks' = <<>>
  /\ ParseEntry
  /\ UNCHANGED <<unit, exporterVars>>

\* ---------------------------------------------------------- Coverage Tree
ModuleNames == {"EmptyModule", "Module"}
FilePaths == {"EmptyFile", "File"}
LineNumbers == 0..MaxLineNumber

ModuleCoverage(name) == [name |-> name, files |-> <<>>]
FileCoverage(path) == [path |-> path, lines |-> {}]

\* FileCoverage::AddLine: insert the line, or overwrite its executed flag.
AddLineTo(file, number, executed) ==
  [file EXCEPT !.lines = {ln \in @ : ln.number # number}
                           \cup {[number |-> number, executed |-> executed]}]

HasLine(file, number) == \E ln \in file.lines : ln.number = number
\* The modules, files and lines of the tree.
FileNodes ==
  UNION {{<<m, f>> : f \in 1..Len(coverageData[m].files)} : m \in 1..Len(coverageData)}
LineNodes ==
  UNION {{<<mf[1], mf[2], ln.number>> : ln \in coverageData[mf[1]].files[mf[2]].lines} :
           mf \in FileNodes}
TreeSize == Len(coverageData) + Cardinality(FileNodes) + Cardinality(LineNodes)
\* A test builds its tree before it makes its temporary path and exports.
BuildingTree == fileSystem = NoTemporaryPath /\ exportCall = NoExport

\* CoverageData::AddModule
AddModule ==
  /\ unit = ExporterTestUnit
  /\ BuildingTree
  /\ TreeSize < MaxNodes
  /\ \E name \in ModuleNames :
       coverageData' = Append(coverageData, ModuleCoverage(name))
  /\ UNCHANGED <<parserVars, unit, fileSystem, exported, exportCall>>

\* ModuleCoverage::AddFile
AddFile ==
  /\ unit = ExporterTestUnit
  /\ BuildingTree
  /\ TreeSize < MaxNodes
  /\ \E m \in 1..Len(coverageData), path \in FilePaths :
       coverageData' =
         [coverageData EXCEPT ![m].files = Append(@, FileCoverage(path))]
  /\ UNCHANGED <<parserVars, unit, fileSystem, exported, exportCall>>

\* FileCoverage::AddLine
AddLine ==
  /\ unit = ExporterTestUnit
  /\ BuildingTree
  /\ \E m \in 1..Len(coverageData) :
       \E f \in 1..Len(coverageData[m].files), number \in LineNumbers,
          executed \in BOOLEAN :
         /\ TreeSize < MaxNodes \/ HasLine(coverageData[m].files[f], number)
         /\ coverageData' =
              [coverageData EXCEPT ![m].files[f] = AddLineTo(@, number, executed)]
  /\ UNCHANGED <<parserVars, unit, fileSystem, exported, exportCall>>

\* ------------------------------------------------------- Report Exporter
\* The document: a package per module, a class per file, a line element
\* per recorded line, by ascending number, with its hit count.
Hits(executed) == IF executed THEN 1 ELSE 0
LeastLine(lines) == CHOOSE ln \in lines : \A other \in lines : ln.number <= other.number
RECURSIVE LineElements(_)
LineElements(lines) ==
  IF lines = {} THEN <<>>
  ELSE <<[number |-> LeastLine(lines).number, hits |-> Hits(LeastLine(lines).executed)]>>
         \o LineElements(lines \ {LeastLine(lines)})
ClassOf(file) ==
  [name |-> file.path, filename |-> file.path, lines |-> LineElements(file.lines)]
\* PackageOf leaving the files without lines out.
PackageOf_SkipsEmptyFiles(module) ==
  [name |-> module.name,
   classes |-> [f \in 1..Len(SelectSeq(module.files, LAMBDA x : x.lines # {})) |->
                  ClassOf(SelectSeq(module.files, LAMBDA x : x.lines # {})[f])]]

PackageOf(module) ==
  [name |-> module.name,
   classes |-> [f \in 1..Len(module.files) |-> ClassOf(module.files[f])]]
Document(tree) == [packages |-> [m \in 1..Len(tree) |-> PackageOf(tree[m])]]

\* TestHelper::TemporaryPath with an option that creates the path.
MakeTemporaryPath ==
  /\ unit = ExporterTestUnit
  /\ BuildingTree
  /\ \E made \in {EmptyFile, Directory} :
       fileSystem' = [fileSystem EXCEPT ![TempPath] = made]
  /\ UNCHANGED <<parserVars, unit, coverageData, exported, exportCall>>

\* CoberturaExporter::Export to a stream.
ExportToStream ==
  /\ unit = ExporterTestUnit
  /\ exportCall = NoExport
  /\ exported' = Append(exported, Document(coverageData))
  /\ exportCall' = [NoExport EXCEPT !.form = "stream", !.before = fileSystem]
  /\ UNCHANGED <<parserVars, unit, coverageData, fileSystem>>

\* The directories to have before the target is opened: the paths above
\* it, and the path itself when it is written with a trailing separator.
ParentsOf(target) ==
  {p \in Paths : \/ Len(p) < Len(target.path) /\ p = SubSeq(target.path, 1, Len(p))
                 \/ target.slash /\ p = target.path}
WithParents(fs, target) ==
  [p \in Paths |-> IF p \in ParentsOf(target) /\ fs[p].kind = "none" THEN Directory
                   ELSE fs[p]]
InvalidOutputFile(target) == [kind |-> InvalidOutputFileException, path |-> target.path]
NoExportError == [kind |-> "none", path |-> <<>>]
\* Export opening the target without creating the directories above it.
ExportToPathGives_NoParents(fs, target, document) ==
  IF \/ \E p \in ParentsOf(target) : fs[p].kind # "dir"
     \/ fs[target.path].kind = "dir"
  THEN [fs |-> fs, error |-> InvalidOutputFile(target)]
  ELSE [fs |-> [fs EXCEPT ![target.path] = [kind |-> "file", content |-> <<document>>]],
        error |-> NoExportError]

\* What the path form of Export leaves in the file system, and its error.
ExportToPathGives(fs, target, document) ==
  IF \E p \in ParentsOf(target) : fs[p].kind = "file"
  THEN [fs |-> fs, error |-> InvalidOutputFile(target)]
  ELSE IF WithParents(fs, target)[target.path].kind = "dir"
  THEN [fs |-> WithParents(fs, target), error |-> InvalidOutputFile(target)]
  ELSE [fs |-> [WithParents(fs, target) EXCEPT
                  ![target.path] = [kind |-> "file", content |-> <<document>>]],
        error |-> NoExportError]

\* CoberturaExporter::Export to a path.
ExportToPath ==
  /\ unit = ExporterTestUnit
  /\ exportCall = NoExport
  /\ \E target \in Targets :
       /\ fileSystem' = ExportToPathGives(fileSystem, target, Document(coverageData)).fs
       /\ exportCall' =
            [form |-> "path", target |-> target, before |-> fileSystem,
             error |-> ExportToPathGives(fileSystem, target, Document(coverageData)).error]
  /\ UNCHANGED <<parserVars, unit, coverageData, exported>>

Next ==
  \/ ScanLine
  \/ ScanEnd
  \/ ReadToFile
  \/ ReadToFileEnd
  \/ ReadHunkLine
  \/ ReadHunkEnd
  \/ AddModule
  \/ AddFile
  \/ AddLine
  \/ MakeTemporaryPath
  \/ ExportToStream
  \/ ExportToPath

Spec == Init /\ [][Next]_vars

\* Parse runs to its end on one thread: a step of it that can be taken is
\* taken (every read of the stream comes back).
ParseStep ==
  ScanLine \/ ScanEnd \/ ReadToFile \/ ReadToFileEnd \/ ReadHunkLine \/ ReadHunkEnd
LiveSpec == Spec /\ WF_vars(ParseStep)

\* Two calls of Parse on the same text.
NextTwice ==
  \/ Next
  \/ ParseAgain
TwiceSpec == Init /\ [][NextTwice]_vars

\* ======================================================================
\* Properties.  They are stated on the text read (input), on the history
\* of accepted pairs and hunks, and on what Parse returns (files at "done")
\* or throws (error at "error").
\* ======================================================================
Begins(l, prefix) ==
  Len(l) >= Len(prefix) /\ \A i \in 1..Len(prefix) : l[i] = prefix[i]
Min(S) == CHOOSE x \in S : \A y \in S : x <= y

\* The path a to-file line names: the text after "+++ ", up to the first tab.
PathOf(toLine) ==
  LET rest == [i \in 1..(Len(toLine) - 4) |-> toLine[i + 4]]
      tabs == {i \in 1..Len(rest) : rest[i] = Tab}
  IN IF tabs = {} THEN rest ELSE [i \in 1..(Min(tabs) - 1) |-> rest[i]]
WithoutHead(path) == [i \in 1..(Len(path) - 2) |-> path[i + 2]]

FromLineOf(p) == input[p.from]
RegisteredPath(p) == PathOf(input[p.to])
IsNewFilePair(p) == Begins(FromLineOf(p), FromFilePrefix \o DevNull)
IsDeletedFilePair(p) == RegisteredPath(p) = DevNull
\* The pairs whose to-file path is not the null device, in input order.
KeptPairs == SelectSeq(pairs, LAMBDA p : ~IsDeletedFilePair(p))
Returned == pc = "done"

\* C1 (as claimed): a returned record never has the path "/dev/null", and
\* no record of a pair whose from-file line references "/dev/null" is
\* returned.
C1_NoNullDevicePairReturned ==
  Returned =>
    /\ \A i \in 1..Len(files) : files[i].path # DevNull
    /\ Len(files) = Len(SelectSeq(pairs, LAMBDA p : ~IsDeletedFilePair(p)
                                                      /\ ~IsNewFilePair(p)))

\* C1 (amended): the returned records are, one for one and in order, the
\* pairs whose to-file path is not exactly "/dev/null"; a pair whose
\* from-file line references "/dev/null" is returned like any other, and a
\* returned path is "/dev/null" only as "b//dev/null" with its "b/" stripped.
C1_DeletedFilesRemoved ==
  Returned =>
    /\ Len(files) = Len(KeptPairs)
    /\ \A i \in 1..Len(files) :
         /\ files[i].path \in {RegisteredPath(KeptPairs[i]),
                               WithoutHead(RegisteredPath(KeptPairs[i]))}
         /\ files[i].path = DevNull =>
              RegisteredPath(KeptPairs[i]) = GitTargetPrefix \o DevNull

\* A deleted-file pair was dropped and another pair was returned.
C1_Witness ==
  /\ Returned
  /\ \E i \in 1..Len(pairs) : IsDeletedFilePair(pairs[i])
  /\ Len(files) >= 1

\* C2 (as claimed): with a returned record, "b/" is stripped from every
\* returned path exactly when a "diff --git" line was read, every pair's
\* to-file path begins with "b/" and every pair's from-file line begins with
\* "--- a/", the null-device pairs included; otherwise no path is changed.
ConventionOfAllPairs ==
  /\ foundGitHeader
  /\ \A i \in 1..Len(pairs) :
       /\ Begins(RegisteredPath(pairs[i]), GitTargetPrefix)
       /\ Begins(FromLineOf(pairs[i]), GitSourcePrefix)
PathsStripped ==
  /\ Len(files) = Len(KeptPairs)
  /\ \A i \in 1..Len(files) :
       /\ Begins(RegisteredPath(KeptPairs[i]), GitTargetPrefix)
       /\ files[i].path = WithoutHead(RegisteredPath(KeptPairs[i]))
PathsUnchanged ==
  /\ Len(files) = Len(KeptPairs)
  /\ \A i \in 1..Len(files) : files[i].path = RegisteredPath(KeptPairs[i])
C2_DetectionBeforeFiltering ==
  Returned /\ files # <<>> =>
    IF ConventionOfAllPairs THEN PathsStripped ELSE PathsUnchanged

\* C2 (amended): filtering comes first; "b/" is stripped from every
\* returned path exactly when a "diff --git" line was read, every pair whose
\* to-file path is not "/dev/null" has a to-file path beginning with "b/",
\* and every pair whose from-file line does not begin with "--- /dev/null"
\* has a from-file line beginning with "--- a/"; otherwise no path changes.
ConventionOfFilteredPairs ==
  /\ foundGitHeader
  /\ \A i \in 1..Len(pairs) :
       /\ ~IsDeletedFilePair(pairs[i]) =>
            Begins(RegisteredPath(pairs[i]), GitTargetPrefix)
       /\ ~IsNewFilePair(pairs[i]) =>
            Begins(FromLineOf(pairs[i]), GitSourcePrefix)
C2_DetectionAfterFiltering ==
  Returned => IF ConventionOfFilteredPairs THEN PathsStripped ELSE PathsUnchanged

\* The convention holds only because a new-file pair is left out of it,
\* and the path of that pair is returned stripped.
C2_Witness ==
  /\ Returned
  /\ files # <<>>
  /\ ConventionOfFilteredPairs
  /\ ~ConventionOfAllPairs
  /\ PathsStripped

\* ---------------------------------------------------------------- hunks
IsRemovedLine(l) == Len(l) >= 1 /\ l[1] = "-"
IsNoNewlineMarker(l) == Len(l) >= 1 /\ l[1] = "\\"
IsAddedLine(l) == Len(l) >= 1 /\ l[1] = "+"
CountsForHunk(l) == ~IsRemovedLine(l) /\ ~IsNoNewlineMarker(l)
\* The lines a..b of the text that are neither removed lines nor markers.
CountedLines(a, b) == {i \in a..b : CountsForHunk(input[i])}
IsHeaderLine(l) == Begins(l, HunkPrefix) \/ Begins(l, FromFilePrefix)
\* The first hunk or from-file header after line i, or the end of the text.
NextHeaderAfter(i) ==
  Min({j \in (i + 1)..Len(input) : IsHeaderLine(input[j])} \cup {Len(input) + 1})
HunkSet == {hunks[k] : k \in 1..Len(hunks)}
FitsInt(hd) == hd.startTo <= IntMax - hd.countTo
\* A header was accepted and its hunk has not been returned.
HunkUnfinished ==
  /\ hunksDifferences.header > 0
  /\ \A h \in HunkSet : h.header # hunksDifferences.header

\* C3 (as claimed): Parse returns only if every accepted hunk header is
\* followed, up to the next header or the end of the text, by exactly countTo
\* lines that are neither removed lines nor no-newline markers.
C3_MismatchAlwaysFails ==
  Returned =>
    \A h \in HunkSet :
      Cardinality(CountedLines(h.header + 1, NextHeaderAfter(h.header) - 1)) = h.countTo

\* C3 (amended): ErrorContextHunks is the end of the text inside a hunk.  A
\* hunk (startTo + countTo fitting an int) is returned exactly at its
\* countTo-th line that is neither removed nor a marker, whatever that line
\* is and whatever follows it; the text ending before that line fails with
\* ErrorContextHunks, and nothing else does.
C3_FailsWhenTextEndsInHunk ==
  /\ \A h \in HunkSet :
       /\ Cardinality(CountedLines(h.header + 1, h.last)) = h.countTo
       /\ h.countTo = 0 => h.last = h.header
       /\ h.countTo > 0 => h.last > h.header /\ CountsForHunk(input[h.last])
  /\ pc = "hunk" =>
       Cardinality(CountedLines(hunksDifferences.header + 1, Len(input)))
         < hunksDifferences.countTo
  /\ error.kind = ErrorContextHunks /\ FitsInt(hunksDifferences) =>
       /\ istr = "fail"
       /\ HunkUnfinished
       /\ Cardinality(CountedLines(hunksDifferences.header + 1, Len(input)))
            < hunksDifferences.countTo
  /\ istr = "fail" /\ HunkUnfinished /\ FitsInt(hunksDifferences) =>
       error.kind = ErrorContextHunks

\* The text ended after some, but not all, of the lines of a hunk.
C3_Witness ==
  /\ error.kind = ErrorContextHunks
  /\ istr = "fail"
  /\ CountedLines(hunksDifferences.header + 1, Len(input)) # {}

\* C4: in every returned hunk with destination start s and count n, the
\* k-th line that is neither removed nor a marker has number s + k - 1, there
\* are n of them, and the lines recorded are exactly the numbers of those
\* that start with "+", each once.
NumberOf(h, i) == h.startTo + Cardinality(CountedLines(h.header + 1, i - 1))
C4_SelectedAreAddedLines ==
  \A h \in HunkSet :
    /\ Cardinality(CountedLines(h.header + 1, h.last)) = h.countTo
    /\ {h.updated[k] : k \in 1..Len(h.updated)} =
         {NumberOf(h, i) : i \in {j \in CountedLines(h.header + 1, h.last) :
                                    IsAddedLine(input[j])}}
    /\ \A k1, k2 \in 1..Len(h.updated) : k1 < k2 => h.updated[k1] < h.updated[k2]

\* A returned hunk with a line that does not count before an added line.
C4_Witness ==
  \E h \in HunkSet :
    \E i, j \in (h.header + 1)..h.last :
      /\ i < j
      /\ ~CountsForHunk(input[i])
      /\ IsAddedLine(input[j])
      /\ NumberOf(h, j) \in {h.updated[k] : k \in 1..Len(h.updated)}

\* --------------------------------------------------------------- errors
Failed == pc = "error"

\* C5 (as claimed): a diff parse error reports a line number within the
\* text and the text of that line.
C5_ErrorNamesLineOfText ==
  Failed /\ error.kind \in DiffErrorKinds =>
    /\ error.line \in 1..Len(input)
    /\ error.text = input[error.line]

\* C8 (as claimed): whatever leaves Parse as a failure is a diff parse
\* error of one of the five kinds.  Stated for the executions whose
\* behaviour is defined: the overflow of startTo + countTo is left aside.
C8_OnlyDiffParseErrors ==
  Failed /\ error.kind # UndefinedBehaviour => error.kind \in DiffErrorKinds

\* --------------------------------------------------------- selected lines
\* C6: the selected lines of every file record are strictly ascending.
C6_SelectedLinesAscending ==
  \A i \in 1..Len(files) :
    \A k1, k2 \in 1..Len(files[i].selectedLines) :
      k1 < k2 => files[i].selectedLines[k1] < files[i].selectedLines[k2]

\* Two hunks of one returned file, the later one recording a line that is
\* not above the lines of the earlier one.
C6_Witness ==
  /\ Returned
  /\ \E k1, k2 \in 1..Len(hunks) :
       /\ k1 < k2
       /\ hunks[k1].file = hunks[k2].file
       /\ hunks[k1].updated # <<>>
       /\ hunks[k2].updated # <<>>
       /\ hunks[k2].updated[1] <= hunks[k1].updated[Len(hunks[k1].updated)]
  /\ \E i \in 1..Len(files) : Len(files[i].selectedLines) >= 2

\* The pair a file record comes from: records are erased only on return.
KeptIndexes == SelectSeq([i \in 1..Len(pairs) |-> i],
                         LAMBDA i : ~IsDeletedFilePair(pairs[i]))
PairIndexOf(i) == IF Returned THEN KeptIndexes[i] ELSE i
TreeLines ==
  UNION {UNION {coverageData[m].files[f].lines : f \in 1..Len(coverageData[m].files)} :
           m \in 1..Len(coverageData)}
TreeLineNumbers == {ln.number : ln \in TreeLines}
SelectedNumbers(i) == {files[i].selectedLines[k] : k \in 1..Len(files[i].selectedLines)}

\* C7 (as claimed): every selected line number and every line number
\* recorded through AddLine is at least 1.
C7_LineNumbersPositive ==
  /\ \A i \in 1..Len(files) : \A n \in SelectedNumbers(i) : n >= 1
  /\ \A n \in TreeLineNumbers : n >= 1

\* C7 (amended): line numbers are at least 0.  A selected line number lies
\* in the destination range startTo .. startTo + countTo - 1 of a hunk of
\* its file, so it is 0 only under a header whose destination start is 0;
\* AddLine records the number it is given, 0 included.
C7_LineNumbersInHunkRange ==
  /\ \A i \in 1..Len(files) :
       \A n \in SelectedNumbers(i) :
         /\ n >= 0
         /\ \E h \in HunkSet :
              /\ h.file = PairIndexOf(i)
              /\ h.startTo <= n
              /\ n - h.startTo < h.countTo
  /\ \A n \in TreeLineNumbers : n >= 0

\* Parse returned line 0.
C7_Witness ==
  /\ Returned
  /\ \E i \in 1..Len(files) : 0 \in SelectedNumbers(i)

\* ------------------------------------------------------ from-file lines
LineRead == Len(input') = Len(input) + 1
NewLine == input'[Len(input')]
IsFromFileLine(l) == Begins(l, FromFilePrefix) /\ ~Begins(l, GitHeaderPrefix)

\* C9: a "--- " line read by the top-level scanner is followed by one more
\* read.  A line that begins with "+++ " registers one file record, named by
\* that line; any other line fails with ErrorExpectFromFilePrefix; no line
\* at all fails with ErrorCannotReadLine; a failure registers nothing.
C9_FromFileNeedsToFile ==
  [][/\ pc = "scan" /\ LineRead /\ IsFromFileLine(NewLine) =>
          pc' = "tofile" /\ files' = files
     /\ pc' = "tofile" => pc = "scan" /\ LineRead /\ IsFromFileLine(NewLine)
     /\ pc = "tofile" =>
          IF LineRead /\ Begins(NewLine, ToFilePrefix)
          THEN /\ pc' = "scan"
               /\ error' = error
               /\ files' = Append(files, [path |-> PathOf(NewLine),
                                          selectedLines |-> <<>>])
               /\ sourceFileLines' = Append(sourceFileLines, input[Len(input)])
          ELSE /\ pc' = "error"
               /\ error'.kind = IF LineRead THEN ErrorExpectFromFilePrefix
                                ELSE ErrorCannotReadLine
               /\ files' = files
               /\ sourceFileLines' = sourceFileLines]_vars

\* After a registered pair, a from-file line was the last line of the text.
C9_Witness ==
  /\ error.kind = ErrorCannotReadLine
  /\ files # <<>>
  /\ IsFromFileLine(input[Len(input)])

\* ---------------------------------------------------------- hunk headers
Blank(l, a, b) == \A i \in a..b : l[i] \in WhiteSpace
Number(l, a, b) == a <= b /\ \A i \in a..b : l[i] \in Digits
\* The comma of the range l[a..b], 0 if it has none.
CommaOf(l, a, b) ==
  IF \E c \in a..b : l[c] = "," THEN CHOOSE c \in a..b : l[c] = "," ELSE 0
IsRange(l, a, b) ==
  \/ Number(l, a, b)
  \/ Number(l, a, CommaOf(l, a, b) - 1) /\ Number(l, CommaOf(l, a, b) + 1, b)
\* <<m, e, q, f>>: "-" at m, the from range m+1..e, "+" at q, the to range
\* q+1..f, of a line "@@ -range +range @@".
Closes(l, f) ==
  \E c \in (f + 1)..(Len(l) - 1) :
    Blank(l, f + 1, c - 1) /\ l[c] = "@" /\ l[c + 1] = "@"
ToRanges(l, m, e, q) ==
  {<<m, e, q, f>> : f \in {g \in (q + 1)..Len(l) : IsRange(l, q + 1, g) /\ Closes(l, g)}}
PlusCuts(l, m, e) ==
  UNION {ToRanges(l, m, e, q) :
           q \in {r \in (e + 1)..Len(l) : l[r] = "+" /\ Blank(l, e + 1, r - 1)}}
FromRanges(l, m) ==
  UNION {PlusCuts(l, m, e) : e \in {g \in (m + 1)..Len(l) : IsRange(l, m + 1, g)}}
HeaderCuts(l) ==
  UNION {FromRanges(l, m) : m \in {r \in 3..Len(l) : l[r] = "-" /\ Blank(l, 3, r - 1)}}
HasHunkShape(l) == Begins(l, HunkPrefix) /\ HeaderCuts(l) # {}

DigitOrder == <<"0", "1", "2", "3", "4", "5", "6", "7", "8", "9">>
RECURSIVE Decimal(_, _, _)
Decimal(l, a, b) ==
  IF a > b THEN 0
  ELSE Decimal(l, a, b - 1) * 10 + (CHOOSE d \in 1..10 : DigitOrder[d] = l[b]) - 1
\* The start and the count of the range l[a..b]; an omitted count is 1.
StartOf(l, a, b) ==
  IF CommaOf(l, a, b) = 0 THEN Decimal(l, a, b) ELSE Decimal(l, a, CommaOf(l, a, b) - 1)
CountOf(l, a, b) ==
  IF CommaOf(l, a, b) = 0 THEN 1 ELSE Decimal(l, CommaOf(l, a, b) + 1, b)
HeaderReadsAs(l, hd) ==
  /\ HasHunkShape(l)
  /\ \A cut \in HeaderCuts(l) :
       /\ hd.startFrom = StartOf(l, cut[1] + 1, cut[2])
       /\ hd.countFrom = CountOf(l, cut[1] + 1, cut[2])
       /\ hd.startTo = StartOf(l, cut[3] + 1, cut[4])
       /\ hd.countTo = CountOf(l, cut[3] + 1, cut[4])

\* C10: a hunk is read only under a header of the shape
\* "@@ -startFrom[,countFrom] +startTo[,countTo] @@", with these numbers and
\* 1 for an omitted count; a "@@" line of another shape that the top-level
\* scanner reads once a file is registered fails with ErrorInvalidHunks,
\* which reports the number and the text of that line.
C10_HeaderShape ==
  /\ [](/\ \A h \in HunkSet : HeaderReadsAs(input[h.header], h)
        /\ pc = "hunk" => HeaderReadsAs(input[hunksDifferences.header], hunksDifferences)
        /\ error.kind = ErrorInvalidHunks =>
             /\ files # <<>>
             /\ Begins(input[Len(input)], HunkPrefix)
             /\ ~HasHunkShape(input[Len(input)]))
  /\ [][pc = "scan" /\ LineRead /\ Begins(NewLine, HunkPrefix) /\ files # <<>>
          /\ ~HasHunkShape(NewLine) =>
        /\ pc' = "error"
        /\ error' = [kind |-> ErrorInvalidHunks, line |-> Len(input'),
                     text |-> NewLine]]_vars

\* A hunk was returned under a header without counts, and a later "@@" line
\* was refused.
C10_Witness ==
  /\ error.kind = ErrorInvalidHunks
  /\ \E h \in HunkSet : CommaOf(input[h.header], 1, Len(input[h.header])) = 0

\* ------------------------------------------------- hunk before any file
\* C11: a "@@" line read by the top-level scanner while no file record is
\* registered fails with ErrorNoFilenameBeforeHunks, reporting that line,
\* whether or not the line has the shape of a hunk header; the failure comes
\* with the "@@" line as the last line read, no hunk entered and no line
\* read after it.
C11_HunkBeforeAnyFile ==
  /\ [](error.kind = ErrorNoFilenameBeforeHunks =>
          /\ Failed
          /\ files = <<>>
          /\ hunks = <<>>
          /\ hunksDifferences = NoHunk
          /\ Begins(input[Len(input)], HunkPrefix)
          /\ currentLine_ = Len(input)
          /\ istr # "fail")
  /\ [][pc = "scan" /\ LineRead /\ Begins(NewLine, HunkPrefix) /\ files = <<>> =>
        /\ pc' = "error"
        /\ error' = [kind |-> ErrorNoFilenameBeforeHunks, line |-> Len(input'),
                     text |-> NewLine]
        /\ UNCHANGED <<files, hunks, hunkVars>>]_vars

\* A "@@" line that is no hunk header, read after other lines and before
\* any file, was refused for the missing file.
C11_Witness ==
  /\ error.kind = ErrorNoFilenameBeforeHunks
  /\ Len(input) >= 2
  /\ ~HasHunkShape(input[Len(input)])

\* ------------------------------------------------------- abort on error
\* The records are as registered: one per accepted pair, under the path of
\* its to-file line, and the from-file lines are those of the pairs.
NotPostProcessed ==
  /\ Len(files) = Len(pairs)
  /\ Len(sourceFileLines) = Len(pairs)
  /\ \A i \in 1..Len(pairs) :
       /\ files[i].path = RegisteredPath(pairs[i])
       /\ sourceFileLines[i] = FromLineOf(pairs[i])
Raised == error # NoError

\* C12: an error ends the parse where it is raised.  Once raised, nothing
\* is read and nothing changes any more; Parse never returns after an
\* error, so the caller gets no records; and at a diff parse error the
\* records are as registered, neither filtered nor stripped.
C12_ErrorAbortsParse ==
  /\ [](/\ Raised <=> Failed
        /\ Raised => ~Returned
        /\ Failed /\ error.kind \in DiffErrorKinds => NotPostProcessed)
  /\ [][Raised => UNCHANGED vars]_vars
  /\ [][Raised' /\ ~Raised =>
          /\ Len(input') <= Len(input) + 1
          /\ currentLine_' = currentLine_ + 1
          /\ UNCHANGED <<files, sourceFileLines, foundGitHeader, pairs, hunks>>]_vars

\* A diff parse error after a file and a hunk were read in full, in a text
\* whose paths would have been stripped on return.
C12_Witness ==
  /\ Failed
  /\ error.kind \in DiffErrorKinds
  /\ hunks # <<>>
  /\ files # <<>>
  /\ ConventionOfFilteredPairs

\* ------------------------------------------------------ returned records
\* The line numbers the hunks read under pair number p have recorded.
LinesOfPair(p) ==
  UNION {{h.updated[k] : k \in 1..Len(h.updated)} : h \in {g \in HunkSet : g.file = p}}

\* C16: Parse returns one record per accepted pair whose record was not
\* erased by RemoveDevNull (the pairs whose to-file path is not "/dev/null"),
\* in the order of their to-file lines.  The i-th record has the path of the
\* i-th such pair, stripped or not, and exactly the lines of the hunks read
\* under that pair: none for a pair without a hunk; pairs of the same path
\* stay separate records.
C16_OneRecordPerPairInOrder ==
  /\ \A i, j \in 1..Len(pairs) : i < j => pairs[i].to < pairs[j].to
  /\ Returned =>
       /\ Len(files) = Len(KeptIndexes)
       /\ \A i \in 1..Len(files) :
            /\ files[i].path \in {RegisteredPath(pairs[KeptIndexes[i]]),
                                  WithoutHead(RegisteredPath(pairs[KeptIndexes[i]]))}
            /\ SelectedNumbers(i) = LinesOfPair(KeptIndexes[i])
            /\ (\A h \in HunkSet : h.file # KeptIndexes[i]) =>
                 files[i].selectedLines = <<>>

\* Two pairs of the same path were returned as two records, the first with
\* the line of its hunk, the second, which has no hunk, with no line.
C16_Witness ==
  /\ Returned
  /\ Len(files) = 2
  /\ files[1].path = files[2].path
  /\ files[1].selectedLines # <<>>
  /\ files[2].selectedLines = <<>>

\* ------------------------------------------------------- frame of a hunk
\* A step of the processing of a hunk: the read of its header by the
\* top-level scanner, or a read of its loop.
HunkStep ==
  \/ pc = "scan" /\ LineRead /\ Begins(NewLine, HunkPrefix) /\ files # <<>>
  \/ pc = "hunk"
\* What a step of a hunk leaves alone.
HunkFrame ==
  /\ Len(files') = Len(files)
  /\ \A i \in 1..Len(files) : files'[i].path = files[i].path
  /\ \A i \in 1..(Len(files) - 1) : files'[i] = files[i]
  /\ sourceFileLines' = sourceFileLines
  /\ foundGitHeader' = foundGitHeader
  /\ pairs' = pairs
\* The body lines read so far under the header of hunksDifferences.
BodyLinesRead == Len(input) - hunksDifferences.header

\* C17 (as claimed): a step of a hunk changes at most the selected lines of
\* the last record, and Stream::currentLine_ has advanced since the header
\* by the number of body lines read, while the hunk is read, when it is
\* returned and when it fails.
C17_HunkFrameAndCounter ==
  /\ [](hunksDifferences.header > 0 /\ (pc = "hunk" \/ error.kind = ErrorContextHunks) =>
          currentLine_ - hunksDifferences.header = BodyLinesRead)
  /\ [][HunkStep => HunkFrame]_vars
  /\ [][hunks' # hunks =>
          currentLine_' - hunks'[Len(hunks')].header
            = hunks'[Len(hunks')].last - hunks'[Len(hunks')].header]_vars

\* The frame alone, and the counter of the hunks that are returned.
HunkFrameHolds ==
  /\ [](pc = "hunk" => currentLine_ - hunksDifferences.header = BodyLinesRead)
  /\ [][HunkStep => HunkFrame]_vars
  /\ [][hunks' # hunks =>
          currentLine_' - hunks'[Len(hunks')].header
            = hunks'[Len(hunks')].last - hunks'[Len(hunks')].header]_vars

\* ------------------------------------------------- body lines of a hunk
\* The lines a..b that are on the source side: neither added nor markers.
SourceLines(a, b) == {i \in a..b : ~IsAddedLine(input[i]) /\ ~IsNoNewlineMarker(input[i])}
\* Line n is a removed line of the body of a returned hunk: only removed
\* lines and markers lie between the last line the hunk reader read and n,
\* and the header still owes a source line when n comes.
IsBodyLine(n) ==
  /\ n \in 1..Len(input)
  /\ IsRemovedLine(input[n])
  /\ \E h \in HunkSet :
       /\ h.last < n
       /\ \A k \in 1..Len(hunks) : hunks[k].header <= h.header \/ hunks[k].header > n
       /\ \A i \in (h.last + 1)..(n - 1) :
            IsRemovedLine(input[i]) \/ IsNoNewlineMarker(input[i])
       /\ Cardinality(SourceLines(h.header + 1, n - 1)) < h.countFrom

\* C18 (as claimed): the top-level scanner never takes a body line of a
\* hunk for a from-file line: no such line is waiting for its to-file line,
\* has registered a file, or has failed with ErrorExpectFromFilePrefix or
\* ErrorCannotReadLine.
C18_BodyLinesNotScanned ==
  /\ pc = "tofile" => ~IsBodyLine(Len(input))
  /\ \A i \in 1..Len(pairs) : ~IsBodyLine(pairs[i].from)
  /\ error.kind = ErrorExpectFromFilePrefix => ~IsBodyLine(Len(input) - 1)
  /\ error.kind = ErrorCannotReadLine => ~IsBodyLine(Len(input))

\* ------------------------------------------------------ prefix stripping
\* Detection would hold if the text ended here.
DetectionHolds ==
  IsGitDetected(RemoveDevNull(files, sourceFileLines).files,
                RemoveDevNull(files, sourceFileLines).sourceFileLines,
                foundGitHeader)

\* C19: the failure "File should have the prefix" never leaves Parse:
\* whenever detection holds for the records the top-level scanner has, every
\* record that RemoveDevNull keeps has a path beginning with "b/", and a
\* return under detection has stripped two characters from every path.
C19_StrippingNeverFails ==
  /\ error.kind # FileFilterException
  /\ pc = "scan" /\ DetectionHolds =>
       \A i \in 1..Len(files) :
         files[i].path # DevNull => Begins(files[i].path, GitTargetPrefix)
  /\ Returned /\ foundGitHeader /\ sourceFileLines # <<>>
       /\ (\A i \in 1..Len(sourceFileLines) : Begins(sourceFileLines[i], GitSourcePrefix))
       /\ (\A i \in 1..Len(KeptPairs) : Begins(RegisteredPath(KeptPairs[i]), GitTargetPrefix))
       => PathsStripped

\* Detection held on return and two paths were stripped.
C19_Witness ==
  /\ Returned
  /\ foundGitHeader
  /\ Len(files) >= 2
  /\ PathsStripped

\* ----------------------------------------------------------- termination
Ended == Returned \/ Failed

\* C20: every step of Parse is one call of GetLine, which delivers the next
\* line of the text (each line once, in order) or fails at its end; the
\* failing call ends Parse, so that Parse makes at most one call more than
\* the text has lines; nothing is read after the end of Parse; and Parse
\* ends.
C20_ParseTerminates ==
  /\ [](/\ currentLine_ = Len(input) + (IF istr = "fail" THEN 1 ELSE 0)
        /\ istr = "fail" => Ended)
  /\ [][~Ended]_vars
  /\ [][unit = DiffParserUnit =>
          /\ currentLine_' = currentLine_ + 1
          /\ IF LineRead
             THEN /\ lastLineRead_' = NewLine
                  /\ \A i \in 1..Len(input) : input'[i] = input[i]
             ELSE /\ input' = input
                  /\ istr' = "fail"
                  /\ Ended']_vars
  /\ (unit = DiffParserUnit ~> Ended)

\* Parse returned after both loops had read lines, with one call of
\* GetLine more than the text has lines.
C20_Witness ==
  /\ Returned
  /\ hunks # <<>>
  /\ hunks[Len(hunks)].last > hunks[Len(hunks)].header
  /\ hunks[Len(hunks)].last < Len(input)
  /\ currentLine_ = Len(input) + 1

C15_WitnessOfError ==
  /\ call = 2
  /\ Failed
  /\ error.kind = ErrorContextHunks
  /\ error.line = Len(input) + 1

\* ---------------------------------------------------------------- export
PathExport == exportCall.form = "path"
ExportFailed == exportCall.error.kind = InvalidOutputFileException
TargetPath == exportCall.target.path
\* The paths above the target.
Above(path) ==
  {p \in Paths : Len(p) < Len(path) /\ \A i \in 1..Len(p) : p[i] = path[i]}
TargetHoldsDocument ==
  fileSystem[TargetPath] = [kind |-> "file", content |-> <<Document(coverageData)>>]
\* Before the call a directory above the target was missing, and nothing
\* above it was a regular file.
ParentsWereMissing ==
  /\ ~exportCall.target.slash
  /\ \E p \in Above(TargetPath) : exportCall.before[p].kind = "none"
  /\ \A p \in Above(TargetPath) : exportCall.before[p].kind # "file"

\* C13: after a call of Export with a path, either the call has failed with
\* InvalidOutputFileException naming the path, or the path is a regular file
\* holding the document, never both and never neither.  A path that was a
\* directory gives the failure; missing directories above the path are
\* created and the export succeeds; a path that was a regular file is
\* overwritten with the document.
C13_PathExportOutcome ==
  PathExport =>
    /\ ExportFailed # TargetHoldsDocument
    /\ ExportFailed => exportCall.error.path = TargetPath
    /\ ~ExportFailed => exportCall.error.kind = "none"
    /\ exportCall.before[TargetPath].kind = "dir" => ExportFailed
    /\ ParentsWereMissing =>
         /\ ~ExportFailed
         /\ \A p \in Above(TargetPath) : fileSystem[p].kind = "dir"
    /\ exportCall.before[TargetPath].kind = "file" =>
         ~ExportFailed /\ TargetHoldsDocument

\* A tree with a module was exported to a path under directories that did
\* not exist.
C13_Witness ==
  /\ PathExport
  /\ ParentsWereMissing
  /\ TargetHoldsDocument
  /\ coverageData # <<>>

\* An empty file was overwritten, and a directory was refused.
C13_WitnessOverwritten ==
  /\ PathExport
  /\ exportCall.before[TargetPath] = EmptyFile
  /\ TargetHoldsDocument
C13_WitnessDirectory ==
  /\ PathExport
  /\ exportCall.before[TargetPath].kind = "dir"
  /\ ExportFailed

\* The documents Export has written, to the stream or to a file.
Written ==
  {exported[k] : k \in 1..Len(exported)}
    \cup UNION {{fileSystem[p].content[k] : k \in 1..Len(fileSystem[p].content)} :
                p \in Paths}
LineOf(file, number) == CHOOSE ln \in file.lines : ln.number = number
ClassMatches(class, file) ==
  /\ class.name = file.path
  /\ class.filename = file.path
  /\ Len(class.lines) = Cardinality(file.lines)
  /\ \A ln \in file.lines :
       Cardinality({k \in 1..Len(class.lines) : class.lines[k].number = ln.number}) = 1
  /\ \A k \in 1..Len(class.lines) :
       /\ HasLine(file, class.lines[k].number)
       /\ class.lines[k].hits \in {0, 1}
       /\ class.lines[k].hits = 1 <=> LineOf(file, class.lines[k].number).executed
PackageMatches(package, module) ==
  /\ package.name = module.name
  /\ Len(package.classes) = Len(module.files)
  /\ \A f \in 1..Len(module.files) : ClassMatches(package.classes[f], module.files[f])

\* C14: a document Export has written has one package per module of the
\* tree, in the order of the AddModule calls and with the module's name,
\* modules without files included; in it one class per file of the module, in
\* the order of the AddFile calls, files without lines included; in it one
\* line element per line number recorded, with hits 1 if the line is
\* executed and 0 if not.  The empty tree gives no package.
C14_DocumentShape ==
  \A document \in Written :
    /\ Len(document.packages) = Len(coverageData)
    /\ \A m \in 1..Len(coverageData) :
         PackageMatches(document.packages[m], coverageData[m])
    /\ coverageData = <<>> => document.packages = <<>>

\* The tree of the Export test, as far as the bound allows: a module
\* without files, then a module with a file without lines and a file with a
\* line that is not executed; exported to the stream.
C14_Witness ==
  /\ exportCall.form = "stream"
  /\ Len(exported) = 1
  /\ Len(coverageData) = 2
  /\ coverageData[1].files = <<>>
  /\ Len(coverageData[2].files) = 2
  /\ coverageData[2].files[1].lines = {}
  /\ \E ln \in coverageData[2].files[2].lines : ~ln.executed

====
